---- MODULE Spec2Model ----
(***************************************************************************)
(* Model of src/src/float.rs: the FloatVar gadget (allocation, equal, neg, *)
(* add, mul) over a prime field, together with the circuit of the tests    *)
(* (allocate a and b, call the gadget, enforce equality with a public c).  *)
(*                                                                         *)
(* The floating-point format is the source's format with its widths kept   *)
(* as named parameters, so that every quantity fits TLC's integers:        *)
(*   MBits    significand width                (53 in the source)          *)
(*   MaxDelta clamp of the exponent difference (64 in the source)          *)
(*   Bias     exponent bias                    (1023 in the source)        *)
(*   P        the modulus of the prime field F                             *)
(* Every 52 of the source is MBits - 1, 105 is 2 * MBits - 1.              *)
(* A field element is its canonical representative in 0 .. P-1.            *)
(***************************************************************************)
EXTENDS Integers, Sequences, FiniteSets

MBits == 3
MaxDelta == 5
Bias == 4
P == 32749

HalfP == (P - 1) \div 2
I64Max == HalfP

(* ------------------------------ field F ------------------------------- *)
Fadd(a, b) == (a + b) % P
Fsub(a, b) == (a - b) % P
Fmul(a, b) == (a * b) % P
Fneg(a) == (0 - a) % P
Fdouble(a) == (a + a) % P

signed_to_field(i) == i % P

Bit(v, i) == (v \div (2 ^ i)) % 2

Select(c, t, f) == IF c THEN t ELSE f

RECURSIVE pow_le(_, _)
pow_le(base, n) ==
    IF n = 0 THEN 1
    ELSE LET rest == pow_le(Fmul(base, base), n \div 2)
         IN  IF n % 2 = 1 THEN Fmul(base, rest) ELSE rest

is_smaller_than_unchecked(a, b) == Bit(Fdouble(Fsub(a, b)), 0) = 1

is_cmp_unchecked(a, b, ord, eq) ==
    LET left == IF ord = "Less" THEN a ELSE b
        right == IF ord = "Less" THEN b ELSE a
        rightc == IF eq THEN Fadd(right, 1) ELSE right
    IN  is_smaller_than_unchecked(left, rightc)

is_cmp(a, b, ord, eq) ==
    LET left == IF ord = "Less" THEN a ELSE b
        right == IF ord = "Less" THEN b ELSE a
        rightc == IF eq THEN Fadd(right, 1) ELSE right
    IN  [val |-> is_smaller_than_unchecked(left, rightc),
         ok |-> left <= HalfP /\ rightc <= HalfP]

to_i64(v) == IF v <= I64Max THEN <<v>> ELSE <<>>

(* ------------------------------ doubles ------------------------------- *)
Doubles == [s : {0, 1}, be : 1 .. (2 * Bias), frac : 0 .. (2 ^ (MBits - 1) - 1)]

integer_decode(d) ==
    [mantissa |-> IF d.be = 0 THEN 2 * d.frac ELSE d.frac + 2 ^ (MBits - 1),
     exponent |-> d.be - (Bias + MBits - 1),
     sign |-> IF d.s = 0 THEN 1 ELSE -1]

verifier_input(d) ==
    LET dec == integer_decode(d)
    IN  [sign |-> IF dec.sign = 1 THEN 1 ELSE Fneg(1),
         exponent |-> signed_to_field(dec.exponent + (MBits - 1)),
         mantissa |-> dec.mantissa % P]

new_variable(d) ==
    LET dec == integer_decode(d)
    IN  [sign |-> IF dec.sign = 1 THEN 1 ELSE Fneg(1),
         exponent |-> signed_to_field(dec.exponent + (MBits - 1)),
         mantissa |-> dec.mantissa % P]

(* -------------------- native arithmetic (a + b, a * b) ----------------- *)
RECURSIVE BitLen(_)
BitLen(n) == IF n = 0 THEN 0 ELSE 1 + BitLen(n \div 2)

Abs(i) == IF i < 0 THEN 0 - i ELSE i

Min(i, j) == IF i < j THEN i ELSE j

\* The double nearest to sgn * mag * 2^e (ties to even); ok is FALSE when the
\* result overflows or is subnormal.
RoundNearestEven(sgn, mag, e) ==
    LET k == BitLen(mag) - MBits
        q == IF k <= 0 THEN mag * 2 ^ (0 - k) ELSE mag \div 2 ^ k
        rem == IF k <= 0 THEN 0 ELSE mag % 2 ^ k
        half == IF k <= 0 THEN 1 ELSE 2 ^ (k - 1)
        up == k > 0 /\ (rem > half \/ (rem = half /\ q % 2 = 1))
        q2 == IF up THEN q + 1 ELSE q
        carry == q2 = 2 ^ MBits
        mant == IF carry THEN 2 ^ (MBits - 1) ELSE q2
        ex == IF carry THEN e + k + 1 ELSE e + k
        be == ex + Bias + MBits - 1
    IN  [ok |-> be >= 1 /\ be <= 2 * Bias,
         val |-> [s |-> IF sgn < 0 THEN 1 ELSE 0, be |-> be,
                  frac |-> mant - 2 ^ (MBits - 1)]]

PlusZero == [s |-> 0, be |-> 0, frac |-> 0]

NativeAdd(a, b) ==
    LET da == integer_decode(a)
        db == integer_decode(b)
        emin == Min(da.exponent, db.exponent)
        m == da.sign * da.mantissa * 2 ^ (da.exponent - emin)
             + db.sign * db.mantissa * 2 ^ (db.exponent - emin)
    IN  IF m = 0 THEN [ok |-> TRUE, val |-> PlusZero]
        ELSE RoundNearestEven(m, Abs(m), emin)

NativeMul(a, b) ==
    LET da == integer_decode(a)
        db == integer_decode(b)
    IN  RoundNearestEven(da.sign * db.sign, da.mantissa * db.mantissa,
                         da.exponent + db.exponent)

NativeNeg(a) == [a EXCEPT !.s = 1 - a.s]

(* ------------------------------ FloatVar ------------------------------ *)
\* equal without the constraint on the mantissa.
equal_NoMantissa(x, y) ==
    << x.sign = y.sign, x.exponent = y.exponent >>

\* FloatVar::equal: the three enforce_equal constraints, in order.
equal(x, y) ==
    << x.sign = y.sign, x.exponent = y.exponent, x.mantissa = y.mantissa >>

\* neg that returns its operand.
neg_KeepsSign(x) ==
    [sign |-> x.sign, exponent |-> x.exponent, mantissa |-> x.mantissa]

neg(x) ==
    [sign |-> Fsub(0, x.sign), exponent |-> x.exponent, mantissa |-> x.mantissa]

\* Wires and constraints neg adds to the constraint system: none (the new
\* sign is a linear combination of an existing wire).
negWires == 0
negConstraints == 0

(* ---- add, lines 112-141: alignment and sign extraction ---- *)
AddLess(x, y) == is_cmp_unchecked(x.exponent, y.exponent, "Less", FALSE)

AddExponent(x, y) == Select(AddLess(x, y), y.exponent, x.exponent)

AddDelta(x, y) ==
    LET exponent == AddExponent(x, y)
        delta == Fsub(Fsub(Fadd(exponent, exponent), x.exponent), y.exponent)
        max == MaxDelta % P
    IN  Select(is_cmp_unchecked(delta, max, "Greater", FALSE), max, delta)

\* The select of line 132 with its branches exchanged.
AddUnchanged_Swapped(b, xx, yy) == Select(b, yy, xx)

AddUnchanged(b, xx, yy) == Select(b, xx, yy)

AddChanged(xx, yy, unchanged, v) == Fmul(Fsub(Fadd(xx, yy), unchanged), v)

AddAlign(x, y) ==
    LET b == AddLess(x, y)
        delta == AddDelta(x, y)
        v == pow_le(2, delta)
        xx == Fmul(x.sign, x.mantissa)
        yy == Fmul(y.sign, y.mantissa)
        unchanged == AddUnchanged(b, xx, yy)
        changed == AddChanged(xx, yy, unchanged, v)
        ssum == Fadd(changed, unchanged)
        sign == Select(is_cmp_unchecked(ssum, 0, "Less", FALSE), Fneg(1), 1)
    IN  [b |-> b, exponent |-> AddExponent(x, y), delta |-> delta, v |-> v,
         xx |-> xx, yy |-> yy, unchanged |-> unchanged, changed |-> changed,
         ssum |-> ssum, sign |-> sign, sum |-> Fmul(ssum, sign)]

(* ---- add, lines 143-182: the off-circuit hint (q, e, r) ---- *)
RECURSIVE NormalizeDown(_, _, _)
NormalizeDown(normalized, delta_e, delta) ==
    IF normalized >= 2 ^ (delta + MBits)
    THEN NormalizeDown(normalized \div 2, delta_e + 1, delta)
    ELSE [normalized |-> normalized, delta_e |-> delta_e]

RECURSIVE NormalizeUp(_, _, _)
NormalizeUp(normalized, delta_e, delta) ==
    IF normalized < 2 ^ (delta + MBits - 1)
    THEN NormalizeUp(normalized * 2, delta_e - 1, delta)
    ELSE [normalized |-> normalized, delta_e |-> delta_e]

\* delta_e of a zero sum that ignores the operands' exponent.
ZeroDeltaE_Constant(exponent) == 0 - Bias

\* delta_e of a zero sum, lines 161-164.
ZeroDeltaE(exponent) ==
    LET n == to_i64(Fneg(exponent))
    IN  (IF n # <<>> THEN n[1] ELSE 0 - to_i64(exponent)[1]) - Bias

AddHint(al) ==
    LET sum == al.sum
        delta == to_i64(al.delta)[1]
        dn == NormalizeDown(sum, 0, delta)
        up == NormalizeUp(dn.normalized, dn.delta_e, delta)
        normalized == IF sum # 0 THEN up.normalized \div 2 ^ delta ELSE 0
        delta_e == IF sum # 0 THEN up.delta_e ELSE ZeroDeltaE(al.exponent)
        r == IF delta + delta_e <= 0 THEN 0
             ELSE sum - normalized * 2 ^ (delta + delta_e)
    IN  [q |-> normalized % P, e |-> signed_to_field(delta_e), r |-> r % P]

(* ---- add, lines 184-215: in-circuit verification and rounding ---- *)
\* q.is_zero() or (q >= 2^52 and q < 2^53), with the side constraints of the
\* two checked comparisons.
AddRangeCheck(q) ==
    LET lo == is_cmp(q, 2 ^ (MBits - 1), "Greater", TRUE)
        hi == is_cmp(q, 2 ^ MBits, "Less", FALSE)
    IN  lo.ok /\ hi.ok /\ (q = 0 \/ (lo.val /\ hi.val))

\* Rounding that sends every tie up.
RoundInc_TieUp(q, r, u) == Bit(Select(r = u, 1, Fdouble(Fsub(u, r))), 0)

\* The rounding increment: the lowest bit of (r = u ? q : 2 * (u - r)).
RoundInc(q, r, u) == Bit(Select(r = u, q, Fdouble(Fsub(u, r))), 0)

AddVerify(al, h) ==
    LET delta == Fadd(al.delta, h.e)
        b == is_cmp_unchecked(delta, 0, "Greater", FALSE)
        m == Select(b, delta, 0)
        n == Fsub(m, delta)
        u == Select(b, pow_le(2, Fsub(delta, 1)), 1)
        inc == RoundInc(h.q, h.r, u)
    IN  [range |-> AddRangeCheck(h.q),
         ident |-> Fmul(al.sum, pow_le(2, n)) = Fadd(Fmul(h.q, pow_le(2, m)), h.r),
         delta |-> delta, b |-> b, m |-> m, n |-> n, u |-> u, inc |-> inc,
         q |-> h.q, r |-> h.r,
         out |-> [sign |-> al.sign, exponent |-> Fadd(al.exponent, h.e),
                  mantissa |-> Fadd(h.q, inc)]]

(* ---- mul, lines 225-263 ---- *)
MulHint(p) == (p \div 2 ^ MBits) % P

MulCircuit(x, y, q) ==
    LET v == 2 ^ (MBits - 1)
        w == Fdouble(v)
        p0 == Fmul(x.mantissa, y.mantissa)
        b == Bit(p0, 2 * MBits - 1) = 1
        p == Select(b, p0, Fdouble(p0))
        e == Fadd(Fadd(x.exponent, y.exponent), Select(b, 1, 0))
        r == Fsub(p, Fmul(q, w))
        cmp == is_cmp(r, w, "Less", FALSE)
        inc == RoundInc(q, r, v)
    IN  [range |-> cmp.ok /\ cmp.val, b |-> b, p |-> p, u |-> v, inc |-> inc,
         q |-> q, r |-> r,
         out |-> [sign |-> Fmul(x.sign, y.sign), exponent |-> e,
                  mantissa |-> Fadd(q, inc)]]

MulProduct(x, y) ==
    LET p0 == Fmul(x.mantissa, y.mantissa)
    IN  Select(Bit(p0, 2 * MBits - 1) = 1, p0, Fdouble(p0))

(* ------------------------- the circuit of the tests ------------------- *)
\* pc      position in generate_constraints (lines 285-298)
\* a, b    the f64 operands of the Circuit (lines 279-283)
\* x, y    their FloatVars (lines 290-291); y after negs calls of neg
\* op      the gadget called (line 293 / 342)
\* hint    the witness wires q, e, r of add (lines 172-180), q of mul (242)
\* aux     the intermediate wires of the gadget
\* out     the FloatVar the gadget returns
\* sat     all constraints enforced so far are satisfied by the assignment
\* nwires  variables allocated by new_variable / new_witness in float.rs
\* ncons   constraints enforced by enforce_equal / enforce_cmp in float.rs
\*         (wires and constraints internal to the library gadgets are not
\*         counted)
\* c       the public-input FloatVar (line 292)
\* eqc     the constraints of FloatVar::equal(&d, &c) (line 295)
VARIABLES pc, a, b, x, y, negs, op, hint, aux, out, sat, nwires, ncons, c, eqc

vars == << pc, a, b, x, y, negs, op, hint, aux, out, sat, nwires, ncons, c, eqc >>

NoFloat == [sign |-> 0, exponent |-> 0, mantissa |-> 0]
NoHint == [q |-> 0, e |-> 0, r |-> 0]

MaxNegs == 2

Init ==
    /\ pc = "start"
    /\ a = PlusZero /\ b = PlusZero
    /\ x = NoFloat /\ y = NoFloat
    /\ negs = 0
    /\ op = "none"
    /\ hint = NoHint
    /\ aux = [kind |-> "none"]
    /\ out = NoFloat
    /\ sat = TRUE
    /\ nwires = 0 /\ ncons = 0
    /\ c = NoFloat
    /\ eqc = << >>

\* FloatVar::new_witness for a and b: three wires each, no constraint.
Alloc ==
    /\ pc = "start"
    /\ \E a0 \in Doubles, b0 \in Doubles :
          /\ a' = a0 /\ b' = b0
          /\ x' = new_variable(a0) /\ y' = new_variable(b0)
    /\ nwires' = nwires + 6
    /\ pc' = "ops"
    /\ UNCHANGED << negs, op, hint, aux, out, sat, ncons, c, eqc >>

\* y := y.neg()
Neg ==
    /\ pc = "ops"
    /\ negs < MaxNegs
    /\ y' = neg(y)
    /\ negs' = negs + 1
    /\ nwires' = nwires + negWires
    /\ ncons' = ncons + negConstraints
    /\ UNCHANGED << pc, a, b, x, op, hint, aux, out, sat, c, eqc >>

\* The value the FloatVar y stands for.
NativeY == IF negs % 2 = 1 THEN NativeNeg(b) ELSE b

AddWith(h) ==
    LET al == AddAlign(x, y)
        ver == AddVerify(al, h)
    IN  /\ hint' = h
        /\ aux' = [kind |-> "add", al |-> al, ver |-> ver]
        /\ out' = ver.out
        /\ sat' = (sat /\ ver.range /\ ver.ident)
        /\ nwires' = nwires + 3
        /\ ncons' = ncons + 2
        /\ op' = "add"
        /\ pc' = "computed"
        /\ UNCHANGED << a, b, x, y, negs, c, eqc >>

\* FloatVar::add with the hint the code computes.
Add ==
    /\ pc = "ops"
    /\ AddWith(AddHint(AddAlign(x, y)))

\* FloatVar::mul with the hint the code computes.
Mul ==
    /\ pc = "ops"
    /\ LET q == MulHint(MulProduct(x, y))
           m == MulCircuit(x, y, q)
       IN  /\ hint' = [q |-> q, e |-> 0, r |-> m.r]
           /\ aux' = [kind |-> "mul", ver |-> m]
           /\ out' = m.out
           /\ sat' = (sat /\ m.range)
    /\ nwires' = nwires + 1
    /\ ncons' = ncons + 1
    /\ op' = "mul"
    /\ pc' = "computed"
    /\ UNCHANGED << a, b, x, y, negs, c, eqc >>

Native == IF op = "add" THEN NativeAdd(a, NativeY) ELSE NativeMul(a, NativeY)

Bump(f, attr) ==
    CASE attr = "sign" -> [f EXCEPT !.sign = Fadd(f.sign, 1)]
      [] attr = "exponent" -> [f EXCEPT !.exponent = Fadd(f.exponent, 1)]
      [] attr = "mantissa" -> [f EXCEPT !.mantissa = Fadd(f.mantissa, 1)]
      [] attr = "negzero" -> [f EXCEPT !.sign = Fneg(f.sign)]

\* The public triples the circuit is checked against: the encoding of the
\* native result, the gadget's own output, and the output moved by one field
\* element in one attribute (or with its sign flipped).
PublicInputs ==
    {verifier_input(Native.val), out}
        \cup {Bump(out, attr) : attr \in {"sign", "exponent", "mantissa", "negzero"}}

\* FloatVar::new_input for c, then FloatVar::equal(&d, &c).
Equal ==
    /\ pc = "computed"
    /\ \E c0 \in PublicInputs :
          /\ c' = c0
          /\ eqc' = equal(out, c0)
          /\ sat' = (sat /\ \A i \in DOMAIN equal(out, c0) : equal(out, c0)[i])
          /\ ncons' = ncons + Len(equal(out, c0))
    /\ nwires' = nwires + 3
    /\ pc' = "done"
    /\ UNCHANGED << a, b, x, y, negs, op, hint, aux, out >>

Next == Alloc \/ Neg \/ Add \/ Mul \/ Equal

Spec == Init /\ [][Next]_vars

(* ----- the same circuit with the witness (q, e, r) chosen by the prover ----- *)
\* The constraints of add do not depend on how q, e and r were computed: a
\* prover may assign the three witness wires of lines 172-180 any field
\* elements.  The candidates are the code's hint, its neighbours, and the r
\* that solves the shift identity of line 202 for the chosen q and e.
SolveR(al, q, e) ==
    LET delta == Fadd(al.delta, e)
        bb == is_cmp_unchecked(delta, 0, "Greater", FALSE)
        m == Select(bb, delta, 0)
        n == Fsub(m, delta)
    IN  Fsub(Fmul(al.sum, pow_le(2, n)), Fmul(q, pow_le(2, m)))

ProverHints(al) ==
    LET h == AddHint(al)
    IN  { [q |-> q, e |-> e, r |-> r] :
            q \in {h.q, Fadd(h.q, 1), Fsub(h.q, 1)},
            e \in {h.e, Fadd(h.e, 1)},
            r \in {h.r} } 
        \cup
        { [q |-> q, e |-> e, r |-> SolveR(al, q, e)] :
            q \in {h.q, Fadd(h.q, 1), Fsub(h.q, 1)},
            e \in {h.e, Fadd(h.e, 1)} }

AddProver ==
    /\ pc = "ops"
    /\ \E h \in ProverHints(AddAlign(x, y)) : AddWith(h)

NextProver == Alloc \/ AddProver \/ Equal

SpecProver == Init /\ [][NextProver]_vars

(* ------------------------------- claims ------------------------------- *)
Computed == pc \in {"computed", "done"}

ToSigned(f) == IF f > HalfP THEN f - P ELSE f

InMantissaRange(m) == m = 0 \/ (m >= 2 ^ (MBits - 1) /\ m < 2 ^ MBits)

\* C1: whenever the native sum a + y is in the normal range, add returns
\* exactly verifier_input(a + y) and the circuit checked against that public
\* encoding has all its constraints satisfied.
C1_AddCompleteness ==
    (pc = "done" /\ op = "add" /\ Native.ok /\ c = verifier_input(Native.val))
        => (sat /\ out = verifier_input(Native.val))

\* C2: whenever the native product a * y is in the normal range, mul returns
\* exactly verifier_input(a * y) and the circuit checked against that public
\* encoding has all its constraints satisfied.
C2_MulCompleteness ==
    (pc = "done" /\ op = "mul" /\ Native.ok /\ c = verifier_input(Native.val))
        => (sat /\ out = verifier_input(Native.val))

\* C3: no assignment of the witness wires q, e, r satisfies the constraints
\* of add together with equal(result, c) when c is not the encoding of the
\* native sum.
C3_AddSoundness ==
    (pc = "done" /\ op = "add" /\ Native.ok /\ c # verifier_input(Native.val))
        => ~sat

\* C4: in every satisfying assignment the mantissa that add returns is 0 or
\* lies in [2^(MBits-1), 2^MBits).
C4_AddOutputRange ==
    (Computed /\ op = "add" /\ sat) => InMantissaRange(out.mantissa)

\* C5: add(a, neg(a)) returns sign +1, mantissa 0 and the exponent -Bias,
\* whatever the sign and exponent of a, with all constraints satisfied.
C5_AdditiveInverse ==
    (Computed /\ op = "add" /\ a = b /\ negs = 1)
        => /\ out = [sign |-> 1, exponent |-> signed_to_field(0 - Bias),
                     mantissa |-> 0]
           /\ (pc = "computed" => sat)

C5_Witness ==
    /\ Computed /\ op = "add" /\ a = b /\ negs = 1
    /\ a.s = 1 /\ a.be = 2 * Bias /\ a.frac = 1
    /\ out.mantissa = 0

\* C6: equal emits three constraints, all satisfied exactly when the two
\* FloatVars agree on sign, exponent and mantissa; a triple that differs in one
\* attribute by one field element, or in the sign of a zero, is rejected.
C6_Equal ==
    pc = "done"
        => /\ Len(eqc) = 3
           /\ ncons = (IF op = "add" THEN 2 ELSE 1) + 3
           /\ (\A i \in DOMAIN eqc : eqc[i]) <=> (c = out)
           /\ \A attr \in {"sign", "exponent", "mantissa", "negzero"} :
                 c = Bump(out, attr) => ~sat

C6_Witness ==
    /\ pc = "done" /\ out.mantissa = 0
    /\ c = Bump(out, "negzero")
    /\ eqc = << FALSE, TRUE, TRUE >>
    /\ ~sat

\* C7: neg flips the sign and keeps exponent and mantissa, adds no wire and
\* no constraint (after any number of negs the constraint system holds the
\* six wires of the two allocations only), and neg of neg is the identity.
C7_Neg ==
    pc = "ops"
        => /\ nwires = 6 /\ ncons = 0
           /\ y.exponent = new_variable(b).exponent
           /\ y.mantissa = new_variable(b).mantissa
           /\ (negs % 2 = 1 => Fadd(y.sign, new_variable(b).sign) = 0)
           /\ (negs % 2 = 0 => y = new_variable(b))

C7_Witness == pc = "ops" /\ negs = 2 /\ y = new_variable(b) /\ b.s = 1

DecA == integer_decode(a)
DecY == integer_decode(NativeY)

\* C8: when the exponents of the operands differ by MaxDelta or more, add
\* returns the encoding of the native sum.
C8_Clamp ==
    (Computed /\ op = "add" /\ Native.ok
        /\ Abs(DecA.exponent - DecY.exponent) >= MaxDelta)
        => out = verifier_input(Native.val)

SignedA == signed_to_field(DecA.sign * DecA.mantissa)
SignedY == signed_to_field(DecY.sign * DecY.mantissa)
ClampedDelta == Min(Abs(DecA.exponent - DecY.exponent), MaxDelta)

\* C9 as stated: the operand with the smaller exponent is scaled by 2^delta
\* and added to the unchanged operand with the larger exponent.
C9_ScalesSmaller ==
    (Computed /\ op = "add" /\ DecA.exponent # DecY.exponent)
        => aux.al.ssum =
              IF DecA.exponent < DecY.exponent
              THEN Fadd(Fmul(SignedA, (2 ^ ClampedDelta) % P), SignedY)
              ELSE Fadd(Fmul(SignedY, (2 ^ ClampedDelta) % P), SignedA)

\* C9 amended: the operand with the larger exponent is scaled by 2^delta and
\* added to the unchanged operand with the smaller exponent.
C9_ScalesLarger ==
    (Computed /\ op = "add" /\ DecA.exponent # DecY.exponent)
        => aux.al.ssum =
              IF DecA.exponent < DecY.exponent
              THEN Fadd(Fmul(SignedY, (2 ^ ClampedDelta) % P), SignedA)
              ELSE Fadd(Fmul(SignedA, (2 ^ ClampedDelta) % P), SignedY)

C9_Witness ==
    /\ Computed /\ op = "add"
    /\ DecA.exponent < DecY.exponent
    /\ aux.al.unchanged = SignedA
    /\ aux.al.changed = Fmul(SignedY, (2 ^ ClampedDelta) % P)
    /\ aux.al.delta = MaxDelta

\* C10: with u = 2^(delta+e-1) (add, delta+e > 0), u = 1 (add, delta+e <= 0)
\* or u = 2^(MBits-1) (mul), and 0 <= r < 2u, the increment is 1 exactly when
\* r > u, or r = u and q is odd; in add with delta+e <= 0, r = 0 and the
\* increment is 0.
C10_RoundIncrement ==
    Computed
        => LET v == aux.ver
               de == IF op = "add" THEN ToSigned(v.delta) ELSE 0
           IN  /\ op = "add" => v.u = (IF de > 0 THEN (2 ^ (de - 1)) % P ELSE 1)
               /\ op = "mul" => v.u = 2 ^ (MBits - 1)
               /\ (v.r < 2 * v.u)
                     => v.inc = (IF v.r > v.u \/ (v.r = v.u /\ v.q % 2 = 1)
                                 THEN 1 ELSE 0)
               /\ (op = "add" /\ de <= 0) => (v.r = 0 /\ v.inc = 0)
               /\ out.mantissa = Fadd(v.q, v.inc)

C10_Witness ==
    /\ Computed /\ op = "add"
    /\ aux.ver.r = aux.ver.u /\ aux.ver.u > 1
    /\ aux.ver.q % 2 = 1 /\ aux.ver.inc = 1

====
